---- MODULE Spec2Model ----
(***************************************************************************)
(* The four TUnit -> xUnit rewriting scripts (convert-tunit-to-xunit.py,   *)
(* fix-remaining-xunit-issues.py, fix-final-assertions.py and              *)
(* fix-xunit-warnings.py): their batch loops over the files of the test    *)
(* directory and the regular-expression rewrites they apply to each file.  *)
(*                                                                         *)
(* A file's text is a sequence of lexemes (strings).  A lexeme is atomic:  *)
(* every literal of every regular expression of the scripts is a whole     *)
(* number of lexemes, and a character class either admits a lexeme whole   *)
(* or stops in front of it.  The sets below say which characters a lexeme  *)
(* holds, which is all the character classes of the scripts ask about.     *)
(***************************************************************************)
EXTENDS Integers, Sequences, FiniteSets, TLC

VARIABLES
    script,     \* which of the four scripts this run is
    disk,       \* base name -> text, for the files of the test directory
    disk0,      \* the directory as it was when the run started
    fault,      \* base name -> "none" | "read" | "write": the I/O error the OS gives
    files,      \* the batch loop's list of files (cs_files / files / test_files)
    idx,        \* number of list entries the batch loop has gone through
    pc,         \* "scan" | "loop" | "done", or "start" | "once" | "twice"
    reads,      \* path -> how often the file was opened for reading
    writes,     \* path -> how often the file was opened for writing
    outcome,    \* path -> what the console reported for the file
    attempts,   \* path -> how often the loop body ran for the file
    counted,    \* whether a count of files has been printed
    fixed_count,\* fix-xunit-warnings.py's counter of fixed files
    mem,        \* the locals of the rewriting function when it was last through
    input,      \* the text a rule sequence is applied to on its own
    out1,       \* that text after one application
    out2        \* and after a second one

vars == <<script, disk, disk0, fault, files, idx, pc, reads, writes, outcome,
          attempts, counted, fixed_count, mem, input, out1, out2>>

(***************************************************************************)
(* Lexemes and the characters they hold.                                   *)
(***************************************************************************)
Digits == {"0", "1", "2", "3", "5"}

Idents == {"x", "y", "items", "json", "Foo", "Bar", "Baz", "Object", "Array",
           "true", "false", "int"}

Spaces == {" ", "\n"}

StrLits == {"\"a\"", "\"b\"", "\"{\"", "\"\""}

UsingLexemes == {"using TUnit.Core", "using TUnit.Assertions",
                 "using TUnit.Assertions.Extensions", "using Xunit", "using System"}

WithRParen == {")"}

WithComma == {", "}

WithSemi == {";"}

WithGT == {">", " > ", " >= "}

\* Every lexeme that holds a '.': the Assert.* call heads, the member
\* accesses, the enum prefix, the using lines and the comment line.
WithDot ==
    { "Assert.That(", "Assert.Equal(", "Assert.NotEqual(", "Assert.NotNull(",
      "Assert.Null(", "Assert.True(", "Assert.False(", "Assert.Contains(",
      "Assert.DoesNotContain(", "Assert.Empty(", "Assert.NotEmpty(",
      "Assert.Single(", "Assert.IsType<", "Assert.IsAssignableFrom<",
      "Assert.StartsWith(", "Assert.EndsWith(",
      ".IsEqualTo(", ".IsNotEqualTo(", ".IsNotNull(", ".IsNull(", ".IsTrue(",
      ".IsFalse(", ".IsGreaterThan(", ".IsGreaterThanOrEqualTo(", ".IsLessThan(",
      ".IsLessThanOrEqualTo(", ".Contains(", ".DoesNotContain(", ".IsEmpty(",
      ".IsNotEmpty(", ".HasCount(", ".IsTypeOf<", ".IsAssignableFrom<",
      ".Count", ".Length", ".StartsWith(", ".EndsWith(", ".GetProperty(",
      ".GetString(", ".GetInt32(", ".GetBoolean(", "JsonValueKind.",
      "using TUnit.Core", "using TUnit.Assertions",
      "using TUnit.Assertions.Extensions" }

\* Whether every character of lexeme t is in character class c.
InClass(c, t) ==
    CASE c = "notRP"    -> t \notin WithRParen
      [] c = "notComma" -> t \notin WithComma
      [] c = "notDot"   -> t \notin WithDot
      [] c = "notGT"    -> t \notin WithGT
      [] c = "notSemi"  -> t \notin WithSemi
      [] c = "digit"    -> t \in Digits
      [] c = "word"     -> t \in Digits \cup Idents
      [] c = "alpha"    -> t \in Idents
      [] c = "space"    -> t \in Spaces
      [] c = "strlit"   -> t \in StrLits
      [] c = "bool"     -> t \in {"true", "false"}
      [] OTHER          -> FALSE

(***************************************************************************)
(* Regular expressions over lexemes, matched as Python's re matches them:  *)
(* leftmost, greedy, backtracking.  A pattern is a sequence of elements,   *)
(* and so is a replacement template; the operators below each give a       *)
(* one-element sequence, to be joined with \o.                             *)
(***************************************************************************)
El(k, ss, c, n) == <<[k |-> k, ss |-> ss, c |-> c, n |-> n]>>

Lit(ss) == El("lit", ss, "", 0)         \* the literal lexemes ss, in a row
Rep(c, n) == El("rep", <<>>, c, n)      \* [class]+ (n = 1) or [class]* (n = 0)
Cap(n, c) == El("cap", <<>>, c, n)      \* ([class]+) as group n
One(c) == El("one", <<>>, c, 0)         \* exactly one lexeme of the class
Opt(s) == El("opt", <<s>>, "", 0)       \* lexeme?
GOpen(n) == El("open", <<>>, "", n)     \* ( of group n, around several elements
GClose(n) == El("close", <<>>, "", n)   \* its )
G(n) == El("grp", <<>>, "", n)          \* \n in a replacement

NoCaps == [g \in 1..4 |-> <<0, 0>>]

NoMatch == [ok |-> FALSE, start |-> 0, end |-> 0, caps |-> NoCaps]

\* The least element of a non-empty set of numbers.
Min(S) == CHOOSE p \in S : \A q \in S : p <= q

\* The number of consecutive lexemes of class c from position pos on.
RunLen(c, toks, pos) ==
    LET stops == {p \in pos..Len(toks) : ~InClass(c, toks[p])}
    IN IF stops = {} THEN Len(toks) + 1 - pos ELSE Min(stops) - pos

\* Whether the lexemes ss stand at position pos.
At(ss, toks, pos) ==
    pos + Len(ss) - 1 <= Len(toks) /\ SubSeq(toks, pos, pos + Len(ss) - 1) = ss

RECURSIVE MatchFrom(_, _, _, _, _)
RECURSIVE TryRep(_, _, _, _, _, _)
\* Match pat[i..] against toks from pos on; end is the position after the match.
MatchFrom(pat, i, toks, pos, caps) ==
    CASE i > Len(pat) -> [ok |-> TRUE, start |-> 0, end |-> pos, caps |-> caps]
      [] i <= Len(pat) /\ pat[i].k = "lit" ->
           IF At(pat[i].ss, toks, pos)
           THEN MatchFrom(pat, i + 1, toks, pos + Len(pat[i].ss), caps) ELSE NoMatch
      [] i <= Len(pat) /\ pat[i].k = "one" ->
           IF pos <= Len(toks) /\ InClass(pat[i].c, toks[pos])
           THEN MatchFrom(pat, i + 1, toks, pos + 1, caps) ELSE NoMatch
      [] i <= Len(pat) /\ pat[i].k = "opt" ->
           IF At(pat[i].ss, toks, pos) /\ MatchFrom(pat, i + 1, toks, pos + 1, caps).ok
           THEN MatchFrom(pat, i + 1, toks, pos + 1, caps)
           ELSE MatchFrom(pat, i + 1, toks, pos, caps)
      [] i <= Len(pat) /\ pat[i].k \in {"rep", "cap"} ->
           TryRep(pat, i, toks, pos, caps, RunLen(pat[i].c, toks, pos))
      [] i <= Len(pat) /\ pat[i].k = "open" ->
           MatchFrom(pat, i + 1, toks, pos, [caps EXCEPT ![pat[i].n] = <<pos, pos>>])
      [] i <= Len(pat) /\ pat[i].k = "close" ->
           MatchFrom(pat, i + 1, toks, pos, [caps EXCEPT ![pat[i].n] = <<@[1], pos>>])
      [] OTHER -> NoMatch

\* Greedy repetition with backtracking: the longest run first, then shorter
\* ones, down to one lexeme ("cap", and "rep" with n = 1) or none.
TryRep(pat, i, toks, pos, caps, len) ==
    CASE len < (IF pat[i].k = "cap" THEN 1 ELSE pat[i].n) -> NoMatch
      [] OTHER ->
           IF MatchFrom(pat, i + 1, toks, pos + len,
                        IF pat[i].k = "cap"
                        THEN [caps EXCEPT ![pat[i].n] = <<pos, pos + len>>] ELSE caps).ok
           THEN MatchFrom(pat, i + 1, toks, pos + len,
                          IF pat[i].k = "cap"
                          THEN [caps EXCEPT ![pat[i].n] = <<pos, pos + len>>] ELSE caps)
           ELSE TryRep(pat, i, toks, pos, caps, len - 1)

RECURSIVE Expand(_, _, _)
\* A replacement template with its group references filled in.
Expand(tmpl, caps, toks) ==
    IF tmpl = <<>> THEN <<>>
    ELSE (IF tmpl[1].k = "grp"
          THEN SubSeq(toks, caps[tmpl[1].n][1], caps[tmpl[1].n][2] - 1)
          ELSE tmpl[1].ss)
         \o Expand(Tail(tmpl), caps, toks)

\* The leftmost match of pat from pos on (every pattern of the scripts starts
\* with a literal, which is looked at first).
Find(pat, toks, pos) ==
    LET starts == {p \in pos..Len(toks) :
                     toks[p] = pat[1].ss[1] /\ MatchFrom(pat, 1, toks, p, NoCaps).ok}
    IN IF starts = {} THEN NoMatch
       ELSE [MatchFrom(pat, 1, toks, Min(starts), NoCaps) EXCEPT !.start = Min(starts)]

RECURSIVE SubFrom(_, _, _, _)
RECURSIVE SubStep(_, _, _, _, _)
\* The scan of re.sub from pos on: the text up to the leftmost match m, the
\* replacement, and the scan again from the end of the match.
SubStep(pat, tmpl, toks, pos, m) ==
    IF ~m.ok THEN SubSeq(toks, pos, Len(toks))
    ELSE SubSeq(toks, pos, m.start - 1) \o Expand(tmpl, m.caps, toks)
         \o SubFrom(pat, tmpl, toks, m.end)

SubFrom(pat, tmpl, toks, pos) == SubStep(pat, tmpl, toks, pos, Find(pat, toks, pos))

\* re.sub(pat, tmpl, toks): every non-overlapping leftmost match replaced, one pass.
Sub(rule, toks) == SubFrom(rule.pat, rule.tmpl, toks, 1)

Rule(pat, tmpl) == [pat |-> pat, tmpl |-> tmpl]

RECURSIVE ApplyRules(_, _)
RECURSIVE ApplyRest(_, _)
\* The rules applied one after the other, each to the result of the one
\* before (the list is halved, which keeps the evaluation shallow).
ApplyRules(rules, toks) ==
    CASE Len(rules) = 0 -> toks
      [] Len(rules) = 1 -> Sub(rules[1], toks)
      [] OTHER -> ApplyRest(SubSeq(rules, Len(rules) \div 2 + 1, Len(rules)),
                            ApplyRules(SubSeq(rules, 1, Len(rules) \div 2), toks))

\* next is the text the rules before have left.
ApplyRest(rules, next) ==
    IF Len(next) >= 0 THEN ApplyRules(rules, next) ELSE next

(***************************************************************************)
(* Text helpers: substring tests and line splitting on lexemes.            *)
(***************************************************************************)
\* t in content, for a text t that is one lexeme.
HasLex(toks, t) == \E i \in 1..Len(toks) : toks[i] = t

\* t in content, for a text t that is the two lexemes a, b in a row.
HasPair(toks, a, b) == \E i \in 1..Len(toks) - 1 : toks[i] = a /\ toks[i + 1] = b

\* content.split('\n'): line k lies between the (k-1)th and the kth newline.
Split(toks) ==
    LET nl == {p \in 1..Len(toks) : toks[p] = "\n"}
        cut(k) == IF k = 0 THEN 0
                  ELSE IF k > Cardinality(nl) THEN Len(toks) + 1
                  ELSE CHOOSE p \in nl : Cardinality({q \in nl : q <= p}) = k
    IN [k \in 1..Cardinality(nl) + 1 |-> SubSeq(toks, cut(k - 1) + 1, cut(k) - 1)]

RECURSIVE Join(_)
\* '\n'.join(lines)
Join(lines) ==
    IF lines = <<>> THEN <<>>
    ELSE IF Len(lines) = 1 THEN lines[1]
    ELSE lines[1] \o <<"\n">> \o Join(Tail(lines))

\* line.startswith('using ')
StartsWithUsing(line) == line # <<>> /\ line[1] \in UsingLexemes

\* line.startswith('using Xunit')
StartsWithUsingXunit(line) == line # <<>> /\ line[1] = "using Xunit"

\* line.startswith('namespace ')
StartsWithNamespace(line) == line # <<>> /\ line[1] = "namespace "

(***************************************************************************)
(* convert-tunit-to-xunit.py: convert_file                                 *)
(***************************************************************************)
\* await Assert\.That\(
ThatHead == Lit(<<"await ", "Assert.That(">>)

\* await Assert\.That\(([^)]+)\)<member>\(\);  ->  <head>\1);
That0(member, head) ==
    Rule(ThatHead \o Cap(1, "notRP") \o Lit(<<")", member, ")", ";">>),
         Lit(<<head>>) \o G(1) \o Lit(<<")", ";">>))

\* await Assert\.That\(([^)]+)\)<member>\(([^)]+)\);  ->  <head>\2, \1);
That2Swap(member, head) ==
    Rule(ThatHead \o Cap(1, "notRP") \o Lit(<<")", member>>) \o Cap(2, "notRP")
            \o Lit(<<")", ";">>),
         Lit(<<head>>) \o G(2) \o Lit(<<", ">>) \o G(1) \o Lit(<<")", ";">>))

\* await Assert\.That\(([^)]+)\)<member>\(([^)]+)\);  ->  Assert.True(\1 <op> \2);
That2Cmp(member, op) ==
    Rule(ThatHead \o Cap(1, "notRP") \o Lit(<<")", member>>) \o Cap(2, "notRP")
            \o Lit(<<")", ";">>),
         Lit(<<"Assert.True(">>) \o G(1) \o Lit(<<op>>) \o G(2) \o Lit(<<")", ";">>))

\* await Assert\.That\(([^)]+)\)<member><([^>]+)>\(\);  ->  <head><\2>(\1);
ThatType(member, head) ==
    Rule(ThatHead \o Cap(1, "notRP") \o Lit(<<")", member>>) \o Cap(2, "notGT")
            \o Lit(<<">", "(", ")", ";">>),
         Lit(<<head>>) \o G(2) \o Lit(<<">", "(">>) \o G(1) \o Lit(<<")", ";">>))

\* The test of lines 19-21 left out: every file is taken for a TUnit file.
AlwaysConvert(content) == TRUE

\* any(pattern in content for pattern in ['[Test]', 'await Assert.That', 'TUnit'])
NeedsConversion(content) ==
    \/ HasLex(content, "[Test]")
    \/ HasPair(content, "await ", "Assert.That(")
    \/ \E i \in 1..Len(content) :
          content[i] \in {"using TUnit.Core", "using TUnit.Assertions",
                          "using TUnit.Assertions.Extensions", "// TUnit"}

\* using TUnit\.<name>;?\s*\n  ->  ''
DropUsing(lexeme) == Rule(Lit(<<lexeme>>) \o Opt(";") \o Rep("space", 0) \o Lit(<<"\n">>), <<>>)

\* 1. the three using-statement removals
ConvertUsingRules ==
    << DropUsing("using TUnit.Core"),                       \* line 24
       DropUsing("using TUnit.Assertions"),                 \* line 25
       DropUsing("using TUnit.Assertions.Extensions") >>    \* line 26

RECURSIVE InsertIndex(_, _, _)
\* The for loop of lines 34-38 from (0-based) line i on; ins is insert_index so far.
InsertIndex(lines, i, ins) ==
    IF i >= Len(lines) THEN ins
    ELSE IF StartsWithUsing(lines[i + 1]) /\ ~StartsWithUsingXunit(lines[i + 1])
         THEN InsertIndex(lines, i + 1, i + 1)
    ELSE IF StartsWithNamespace(lines[i + 1]) THEN ins
    ELSE InsertIndex(lines, i + 1, ins)

\* lines.insert(insert_index, 'using Xunit;')
InsertUsing(lines, ins) ==
    SubSeq(lines, 1, ins) \o << <<"using Xunit", ";">> >> \o SubSeq(lines, ins + 1, Len(lines))

\* Ensure 'using Xunit;' is present when the file has test attributes.
EnsureXunitUsing(content) ==
    IF (HasLex(content, "[Test]") \/ HasLex(content, "[Fact]"))
       /\ ~HasPair(content, "using Xunit", ";")
    THEN Join(InsertUsing(Split(content), InsertIndex(Split(content), 0, 0)))
    ELSE content

\* 2. and 3.: test attributes and async method signatures
ConvertAttributeRules ==
    << Rule(Lit(<<"[Test]">>), Lit(<<"[Fact]">>)),                     \* line 43
       Rule(Lit(<<"[TestMethod]">>), Lit(<<"[Fact]">>)),               \* line 44
       Rule(Lit(<<"public async void ">>) \o Cap(1, "word") \o Lit(<<"(", ")">>),
            Lit(<<"public void ">>) \o G(1) \o Lit(<<"(", ")">>)),     \* line 48
       Rule(Lit(<<"public async Task ">>) \o Cap(1, "word") \o Lit(<<"(", ")">>),
            Lit(<<"public async Task ">>) \o G(1) \o Lit(<<"(", ")">>)) >>   \* line 51

\* 4. the assertion rules, in the order of the source
ConvertAssertionRules ==
    << That2Swap(".IsEqualTo(", "Assert.Equal("),                      \* line 56
       That2Swap(".IsNotEqualTo(", "Assert.NotEqual("),                \* line 57
       That0(".IsNotNull(", "Assert.NotNull("),                        \* line 60
       That0(".IsNull(", "Assert.Null("),                              \* line 61
       That0(".IsTrue(", "Assert.True("),                              \* line 64
       That0(".IsFalse(", "Assert.False("),                            \* line 65
       That2Cmp(".IsGreaterThan(", " > "),                             \* line 68
       That2Cmp(".IsGreaterThanOrEqualTo(", " >= "),                   \* line 69
       That2Cmp(".IsLessThan(", " < "),                                \* line 70
       That2Cmp(".IsLessThanOrEqualTo(", " <= "),                      \* line 71
       That2Swap(".Contains(", "Assert.Contains("),                    \* line 74
       That2Swap(".DoesNotContain(", "Assert.DoesNotContain("),        \* line 75
       That0(".IsEmpty(", "Assert.Empty("),                            \* line 76
       That0(".IsNotEmpty(", "Assert.NotEmpty("),                      \* line 77
       Rule(ThatHead \o Cap(1, "notRP") \o Lit(<<")", ".HasCount(">>) \o Cap(2, "notRP")
               \o Lit(<<")", ";">>),
            Lit(<<"Assert.Equal(">>) \o G(2) \o Lit(<<", ">>) \o G(1)
               \o Lit(<<".Count", ")", ";">>)),                        \* line 80
       Rule(Lit(<<"Assert.Equal(", "0", ", ">>) \o Cap(1, "notRP")
               \o Lit(<<".Count", ")", ";">>),
            Lit(<<"Assert.Empty(">>) \o G(1) \o Lit(<<")", ";">>)),    \* line 81
       Rule(Lit(<<"Assert.Equal(", "1", ", ">>) \o Cap(1, "notRP")
               \o Lit(<<".Count", ")", ";">>),
            Lit(<<"Assert.Single(">>) \o G(1) \o Lit(<<")", ";">>)),   \* line 82
       ThatType(".IsTypeOf<", "Assert.IsType<"),                       \* line 85
       ThatType(".IsAssignableFrom<", "Assert.IsAssignableFrom<") >>   \* line 86

\* str.replace(old, new) on lexemes
Replace(toks, old, new) == Sub(Rule(Lit(old), Lit(new)), toks)

\* 5. the fallback for the assertions the rules of step 4 left: which branch
\* of replace_multiline_assertions is taken, as the strings it replaces.
FallbackBranch(full_match) ==
    IF HasLex(full_match, ".IsEqualTo(")
    THEN [head |-> "Assert.Equal(", old |-> <<")", ".IsEqualTo(">>, new |-> <<", ">>]
    ELSE IF HasPair(full_match, ".IsNotNull(", ")")
    THEN [head |-> "Assert.NotNull(", old |-> <<")", ".IsNotNull(", ")", ";">>,
          new |-> <<")", ";">>]
    ELSE IF HasPair(full_match, ".IsTrue(", ")")
    THEN [head |-> "Assert.True(", old |-> <<")", ".IsTrue(", ")", ";">>,
          new |-> <<")", ";">>]
    ELSE IF HasPair(full_match, ".IsFalse(", ")")
    THEN [head |-> "Assert.False(", old |-> <<")", ".IsFalse(", ")", ";">>,
          new |-> <<")", ";">>]
    ELSE [head |-> "", old |-> <<>>, new |-> <<>>]

\* full_match.replace('await Assert.That(', head).replace(old, new)
ReplaceBoth(full_match, b) ==
    IF b.head = "" THEN full_match
    ELSE Replace(Replace(full_match, <<"await ", "Assert.That(">>, <<b.head>>), b.old, b.new)

replace_multiline_assertions(full_match) ==
    ReplaceBoth(full_match, FallbackBranch(full_match))

\* await Assert\.That\([^;]+\);
RemainingPattern == ThatHead \o Rep("notSemi", 1) \o Lit(<<")", ";">>)

RECURSIVE SubRemainingFrom(_, _)
RECURSIVE SubRemainingStep(_, _, _)
SubRemainingStep(toks, pos, m) ==
    IF ~m.ok THEN SubSeq(toks, pos, Len(toks))
    ELSE SubSeq(toks, pos, m.start - 1)
         \o replace_multiline_assertions(SubSeq(toks, m.start, m.end - 1))
         \o SubRemainingFrom(toks, m.end)

SubRemainingFrom(toks, pos) == SubRemainingStep(toks, pos, Find(RemainingPattern, toks, pos))

\* re.sub(r'await Assert\.That\([^;]+\);', replace_multiline_assertions, content)
ConvertRemaining(content) == SubRemainingFrom(content, 1)

\* Lexemes whose last character is '(' (for the test '()' in line).
EndsLParen ==
    { "(", "Assert.That(", "Assert.Equal(", "Assert.NotEqual(",
      "Assert.NotNull(", "Assert.Null(", "Assert.True(", "Assert.False(",
      "Assert.Contains(", "Assert.DoesNotContain(", "Assert.Empty(",
      "Assert.NotEmpty(", "Assert.Single(", "Assert.StartsWith(", "Assert.EndsWith(",
      ".IsEqualTo(", ".IsNotEqualTo(", ".IsNotNull(", ".IsNull(", ".IsTrue(",
      ".IsFalse(", ".IsGreaterThan(", ".IsGreaterThanOrEqualTo(", ".IsLessThan(",
      ".IsLessThanOrEqualTo(", ".Contains(", ".DoesNotContain(", ".IsEmpty(",
      ".IsNotEmpty(", ".HasCount(", ".StartsWith(", ".EndsWith(", ".GetProperty(",
      ".GetString(", ".GetInt32(", ".GetBoolean(" }

\* 'public async Task' in line and '()' in line
IsAsyncTaskLine(line) ==
    /\ HasLex(line, "public async Task ")
    /\ \E i \in 1..Len(line) - 1 : line[i] \in EndsLParen /\ line[i + 1] = ")"

\* line.count(ch) for ch one of '{' and '}': no lexeme holds more than one.
CountChar(line, ch) ==
    Cardinality({p \in 1..Len(line) :
                   line[p] = ch \/ (ch = "{" /\ line[p] = "\"{\"")})

RECURSIVE MethodEnd(_, _, _, _, _)
\* The inner loop of lines 117-125, from (1-based) line j on: the first line at
\* which a brace was seen and the count is back at zero, else method_start.
MethodEnd(lines, method_start, j, brace_count, found_start) ==
    IF j > Len(lines) THEN method_start
    ELSE IF (found_start \/ CountChar(lines[j], "{") > 0)
            /\ brace_count + CountChar(lines[j], "{") - CountChar(lines[j], "}") = 0
         THEN j
    ELSE MethodEnd(lines, method_start, j + 1,
                   brace_count + CountChar(lines[j], "{") - CountChar(lines[j], "}"),
                   found_start \/ CountChar(lines[j], "{") > 0)

\* 'await ' in '\n'.join(lines[method_start:method_end+1])
HasAwait(lines, from, to) == \E j \in from..to : HasLex(lines[j], "await ")

\* lines[i].replace('public async Task', 'public void')
ToVoid(line) ==
    [p \in 1..Len(line) |-> IF line[p] = "public async Task " THEN "public void "
                            ELSE line[p]]

\* The body of the loop of lines 109-131 for line i.
AsyncLine(lines, i) ==
    IF IsAsyncTaskLine(lines[i]) /\ ~HasAwait(lines, i, MethodEnd(lines, i, i, 0, FALSE))
    THEN [lines EXCEPT ![i] = ToVoid(lines[i])]
    ELSE lines

RECURSIVE AsyncLoop(_, _)
\* 6. remove async from the methods that no longer await
AsyncLoop(lines, i) ==
    IF i > Len(lines) THEN lines
    ELSE AsyncLoop(AsyncLine(lines, i), i + 1)

RECURSIVE DedupeUsings(_, _)
\* 7. drop the using lines already seen
DedupeUsings(lines, seen_usings) ==
    IF lines = <<>> THEN <<>>
    ELSE IF StartsWithUsing(lines[1]) /\ lines[1] \in seen_usings
         THEN DedupeUsings(Tail(lines), seen_usings)
    ELSE <<lines[1]>>
         \o DedupeUsings(Tail(lines),
                         IF StartsWithUsing(lines[1]) THEN seen_usings \cup {lines[1]}
                         ELSE seen_usings)

NoLocals == [read |-> FALSE, raised |-> FALSE, content |-> <<>>, write |-> FALSE,
             asyncIn |-> <<>>, asyncOut |-> <<>>]

\* Steps 1 to 5 of convert_file, each on the text the step before has left
\* (text is that text, looked at before the step starts).
FromStep5(text) == IF Len(text) >= 0 THEN ConvertRemaining(text) ELSE text

FromStep4(text) ==
    IF Len(text) >= 0 THEN FromStep5(ApplyRules(ConvertAssertionRules, text)) ELSE text

FromStep2(text) ==
    IF Len(text) >= 0 THEN FromStep4(ApplyRules(ConvertAttributeRules, text)) ELSE text

FromEnsure(text) == IF Len(text) >= 0 THEN FromStep2(EnsureXunitUsing(text)) ELSE text

\* The text the async-removal loop starts from.
ConvertRules(content) == FromEnsure(ApplyRules(ConvertUsingRules, content))

\* The function's locals at its end: the text, whether it got as far as
\* opening the file for writing, and `lines` before and after step 6.
Locals(content, write, asyncIn, asyncOut) ==
    [read |-> TRUE, raised |-> FALSE, content |-> content, write |-> write,
     asyncIn |-> asyncIn, asyncOut |-> asyncOut]

\* Step 7 and the write of lines 150-151.
ConvertEnd(lines, after) ==
    IF Len(after) >= 0
    THEN Locals(Join(DedupeUsings(Split(Join(after)), {})), TRUE, lines, after)
    ELSE NoLocals

\* Step 6 on the lines steps 1 to 5 have left.
ConvertAsync(lines) ==
    IF Len(lines) >= 0 THEN ConvertEnd(lines, AsyncLoop(lines, 1)) ELSE NoLocals

\* convert_file on the text it has read.
convert_file(content) ==
    IF NeedsConversion(content) THEN ConvertAsync(Split(ConvertRules(content)))
    ELSE Locals(content, FALSE, <<>>, <<>>)

(***************************************************************************)
(* The rule shapes the three fix scripts share.  `semi` is <<";">> for the  *)
(* rules that end in ';' and <<>> for the ones that do not.                *)
(***************************************************************************)
\* Assert\.Equal\(([^,]+), (<literal>)\)  ->  Assert.Equal(\2, \1)
SwapEqual(literal, semi) ==
    Rule(Lit(<<"Assert.Equal(">>) \o Cap(1, "notComma") \o Lit(<<", ">>) \o GOpen(2)
            \o literal \o GClose(2) \o Lit(<<")">> \o semi),
         Lit(<<"Assert.Equal(">>) \o G(2) \o Lit(<<", ">>) \o G(1) \o Lit(<<")">> \o semi))

\* Assert\.Equal\(([^,]+\.GetProperty\([^)]+\)<getter>\(\)), (<literal>)\);
\*   ->  Assert.Equal(\2, \1);
SwapEqualProperty(getter, literal) ==
    Rule(Lit(<<"Assert.Equal(">>) \o GOpen(1) \o Rep("notComma", 1)
            \o Lit(<<".GetProperty(">>) \o Rep("notRP", 1) \o Lit(<<")", getter, ")">>)
            \o GClose(1) \o Lit(<<", ">>) \o GOpen(2) \o literal \o GClose(2)
            \o Lit(<<")", ";">>),
         Lit(<<"Assert.Equal(">>) \o G(2) \o Lit(<<", ">>) \o G(1) \o Lit(<<")", ";">>))

\* Assert\.True\(([^.]+)<member>\(([^)]+)\)\)  ->  <head>\2, \1)
TrueToCall(member, head, semi) ==
    Rule(Lit(<<"Assert.True(">>) \o Cap(1, "notDot") \o Lit(<<member>>) \o Cap(2, "notRP")
            \o Lit(<<")", ")">> \o semi),
         Lit(<<head>>) \o G(2) \o Lit(<<", ">>) \o G(1) \o Lit(<<")">> \o semi))

\* Assert\.Equal\(0, ([^.]+)<member>\)  ->  Assert.Empty(\1)
ZeroToEmpty(member, semi) ==
    Rule(Lit(<<"Assert.Equal(", "0", ", ">>) \o Cap(1, "notDot")
            \o Lit(<<member, ")">> \o semi),
         Lit(<<"Assert.Empty(">>) \o G(1) \o Lit(<<")">> \o semi))

StringLiteral == One("strlit")                              \* "([^"]*)"
Number == Rep("digit", 1)                                   \* \d+
EnumValue == Lit(<<"JsonValueKind.">>) \o Rep("alpha", 1)   \* JsonValueKind\.[A-Za-z]+
Boolean == One("bool")                                      \* true|false

(***************************************************************************)
(* fix-remaining-xunit-issues.py: fix_remaining_assertions                 *)
(***************************************************************************)
\* Assert\.That\(([^)]+)\)<member>\(\)  ->  <head>\1)
Bare0(member, head) ==
    Rule(Lit(<<"Assert.That(">>) \o Cap(1, "notRP") \o Lit(<<")", member, ")">>),
         Lit(<<head>>) \o G(1) \o Lit(<<")">>))

\* Assert\.That\(([^)]+)\)<member>\(([^)]+)\)  ->  <head>\2, \1)
Bare2Swap(member, head) ==
    Rule(Lit(<<"Assert.That(">>) \o Cap(1, "notRP") \o Lit(<<")", member>>)
            \o Cap(2, "notRP") \o Lit(<<")">>),
         Lit(<<head>>) \o G(2) \o Lit(<<", ">>) \o G(1) \o Lit(<<")">>))

\* The rules of lines 20 to 34.  Line 35 is never got past (see
\* RemainingEnd), so the rules of lines 38 to 63 are never applied.
RemainingRules ==
    << Bare2Swap(".IsEqualTo(", "Assert.Equal("),                  \* line 20
       Bare2Swap(".IsNotEqualTo(", "Assert.NotEqual("),            \* line 21
       Bare0(".IsNotNull(", "Assert.NotNull("),                    \* line 22
       Bare0(".IsNull(", "Assert.Null("),                          \* line 23
       Bare0(".IsTrue(", "Assert.True("),                          \* line 24
       Bare0(".IsFalse(", "Assert.False("),                        \* line 25
       Bare2Swap(".Contains(", "Assert.Contains("),                \* line 26
       Bare0(".IsEmpty(", "Assert.Empty("),                        \* line 27
       Bare0(".IsNotEmpty(", "Assert.NotEmpty("),                  \* line 28
       SwapEqual(StringLiteral, <<>>) >>                           \* line 34

\* Line 35: re.sub compiles its pattern before it looks at the text, and the
\* pattern r'Assert\.Equal\(([^,]+), (\'([^\']*)\'))' has one ')' too many;
\* re.error ("unbalanced parenthesis") is raised, whatever the text is, and
\* the function is left with the file read and not written.
RemainingEnd(content) ==
    [Locals(content, FALSE, <<>>, <<>>) EXCEPT !.raised = TRUE]

(***************************************************************************)
(* fix-final-assertions.py: fix_file                                       *)
(***************************************************************************)
\* await Assert\.That\(([^)]+\.GetProperty\([^)]+\)<getter>\(\))\)<member>\((<arg>)\);
FinalProperty(getter, member, arg, tmpl) ==
    Rule(ThatHead \o GOpen(1) \o Rep("notRP", 1) \o Lit(<<".GetProperty(">>)
            \o Rep("notRP", 1) \o Lit(<<")", getter, ")">>) \o GClose(1)
            \o Lit(<<")", member>>) \o GOpen(2) \o arg \o GClose(2) \o Lit(<<")", ";">>),
         tmpl)

FinalRules ==
    << FinalProperty(".GetInt32(", ".IsGreaterThan(", Number,                 \* line 15
           Lit(<<"Assert.True(">>) \o G(1) \o Lit(<<" > ">>) \o G(2) \o Lit(<<")", ";">>)),
       FinalProperty(".GetInt32(", ".IsGreaterThanOrEqualTo(", Number,        \* line 18
           Lit(<<"Assert.True(">>) \o G(1) \o Lit(<<" >= ">>) \o G(2) \o Lit(<<")", ";">>)),
       FinalProperty(".GetString(", ".Contains(", Rep("notRP", 1),            \* line 21
           Lit(<<"Assert.Contains(">>) \o G(2) \o Lit(<<", ">>) \o G(1)
              \o Lit(<<")", ";">>)),
       That2Swap(".Contains(", "Assert.Contains("),                           \* line 24
       SwapEqualProperty(".GetString(", StringLiteral),                       \* line 28
       SwapEqualProperty(".GetInt32(", Number),                               \* line 31
       SwapEqualProperty(".GetBoolean(", Boolean),                            \* line 34
       SwapEqual(EnumValue, <<";">>),                                         \* line 37
       TrueToCall(".Contains(", "Assert.Contains(", <<";">>),                 \* line 41
       ZeroToEmpty(".Count", <<";">>),                                        \* line 44
       TrueToCall(".StartsWith(", "Assert.StartsWith(", <<";">>),             \* line 48
       TrueToCall(".EndsWith(", "Assert.EndsWith(", <<";">>) >>               \* line 51

(***************************************************************************)
(* fix-xunit-warnings.py: fix_xunit_warnings                               *)
(***************************************************************************)
WarningRules ==
    << TrueToCall(".Contains(", "Assert.Contains(", <<";">>),                 \* line 17
       ZeroToEmpty(".Count", <<";">>),                                        \* line 21
       ZeroToEmpty(".Length", <<";">>),                                       \* line 23
       SwapEqualProperty(".GetString(", StringLiteral),                       \* line 28
       SwapEqual(StringLiteral, <<";">>) >>                                   \* line 32

(***************************************************************************)
(* What each script makes of a text it has read.                           *)
(***************************************************************************)
Scripts == {"convert", "remaining", "final", "warnings"}

FixRules(s) == IF s = "final" THEN FinalRules ELSE WarningRules

\* if content != original: write
FixEnd(original, content) == Locals(content, content # original, <<>>, <<>>)

\* convert_file, fix_remaining_assertions, fix_file or fix_xunit_warnings on
\* the text it has read.
Run(s, content) ==
    CASE s = "convert"   -> convert_file(content)
      [] s = "remaining" -> RemainingEnd(ApplyRules(RemainingRules, content))
      [] OTHER           -> FixEnd(content, ApplyRules(FixRules(s), content))

\* No call has read a file yet, or the last one failed to.
NoRun == NoLocals

(***************************************************************************)
(* The test directory and the batch loops.  A path is written as its base  *)
(* name: every path of a run lies directly in the one hard-coded directory *)
(* /home/henning/Workbench/MCP/MCP.Tests, whose own name holds none of the *)
(* excluded names.                                                         *)
(***************************************************************************)
MaxFiles == 2

\* The *.cs files the directory may hold.
Names == {"Tests2.cs", "SimpleTests.cs", "TestSetup.cs", "MyTestSetup.cs"}

\* skip_files
skip_files == {"InMemoryAnalysisService.cs", "InMemoryProjectGenerator.cs", "TestSetup.cs"}

\* any(skip in f for skip in skip_files): the names that hold an excluded
\* name somewhere in them.
HoldsSkipName(f) == f \in skip_files \cup {"MyTestSetup.cs"}

\* fix-final-assertions.py's hard-coded list
FinalFiles ==
    << "SimpleInMemoryTests.cs", "Tests2.cs", "Tests3.cs",
       "CodeSuggestionsErrorHandlingTests.cs", "WorkingTests.cs",
       "RealCodeCoverageTests.cs", "ProductionCodeTests.cs",
       "CodeSuggestionsIntegrationTests.cs", "CodeSuggestionsTests.cs",
       "SimpleTests.cs", "InMemoryTests.cs" >>

Paths == Names \cup {FinalFiles[i] : i \in 1..Len(FinalFiles)}

Faults == {"none", "read", "write"}

\* The texts a file of the directory may hold: an MSTest attribute and an
\* async void method, and no word of TUnit; the word TUnit in a comment only;
\* an old-style assertion and a collection check.
MSTestText == <<"[TestMethod]", "\n", "public async void ", "Foo", "(", ")">>

CommentText == <<"// TUnit", "\n", "Assert.Equal(", "3", ", ", "x", ")", ";">>

OldText ==
    <<"await ", "Assert.That(", "x", ")", ".IsEqualTo(", "3", ")", ";", "\n",
      "Assert.True(", "items", ".Contains(", "y", ")", ")", ";">>

BatchTexts == {MSTestText, CommentText, OldText}

\* The filter on skip_files left out: every matched path is a candidate.
AllMatched(matched) == matched

\* cs_files = [f for f in cs_files if os.path.basename(f) not in skip_files]
CandidatesByBaseName(matched) == {f \in matched : f \notin skip_files}

\* test_files = [f for f in test_files if not any(skip in f for skip in skip_files)]
CandidatesBySubstring(matched) == {f \in matched : ~HoldsSkipName(f)}

\* The candidate set of a directory-scanning script.
Candidates(s, matched) ==
    IF s = "warnings" THEN CandidatesBySubstring(matched)
    ELSE CandidatesByBaseName(matched)

\* The orders glob.glob may list a set of paths in.
Orders(S) == {q \in [1..Cardinality(S) -> S] : \A f \in S : \E i \in DOMAIN q : q[i] = f}

Zero == [f \in Paths |-> 0]

InitBatch ==
    /\ script \in Scripts
    /\ \E dir \in {d \in SUBSET Names : Cardinality(d) <= MaxFiles} :
         /\ disk \in [dir -> BatchTexts]
         /\ fault \in [dir -> Faults]
    /\ disk0 = disk
    /\ files = <<>>
    /\ idx = 0
    /\ pc = "scan"
    /\ reads = Zero /\ writes = Zero /\ attempts = Zero
    /\ outcome = [f \in Paths |-> "none"]
    /\ counted = FALSE
    /\ fixed_count = 0
    /\ mem = NoRun
    /\ input = <<>> /\ out1 = <<>> /\ out2 = <<>>

fun_vars == <<input, out1, out2>>

\* glob.glob, the filter on skip_files and, in convert and fix-remaining, the
\* print of len(cs_files) in front of the loop.
Scan ==
    /\ pc = "scan"
    /\ script # "final"
    /\ files' \in Orders(Candidates(script, DOMAIN disk))
    /\ counted' = (script \in {"convert", "remaining"})
    /\ pc' = "loop"
    /\ UNCHANGED <<script, disk, disk0, fault, idx, reads, writes, outcome, attempts,
                   fixed_count, mem, fun_vars>>

\* fix-final-assertions.py scans nothing: its list is written out.
ListFiles ==
    /\ pc = "scan"
    /\ script = "final"
    /\ files' = FinalFiles
    /\ pc' = "loop"
    /\ UNCHANGED <<script, disk, disk0, fault, idx, reads, writes, outcome, attempts,
                   counted, fixed_count, mem, fun_vars>>

\* What the console says of a file that was handled without an error.
Report(s, wrote) ==
    CASE s = "convert"   -> IF wrote THEN "converted" ELSE "skipped"
      [] s = "warnings"  -> IF wrote THEN "fixed" ELSE "silent"
      [] OTHER           -> IF wrote THEN "fixed" ELSE "no changes"

\* The locals of the call before kept when open(f, 'r') raises, as they
\* would be if the functions held their text in module-level names.
CallKeepingLocals(f) ==
    IF f \notin DOMAIN disk THEN NoRun
    ELSE IF fault[f] # "read" THEN Run(script, disk[f]) ELSE mem

\* The call of convert_file, fix_remaining_assertions, fix_file or
\* fix_xunit_warnings on path f.  open(f, 'r') raises for a file that is not
\* there or cannot be read, and the call has then no locals to speak of.
Call(f) ==
    IF f \in DOMAIN disk /\ fault[f] # "read" THEN Run(script, disk[f]) ELSE NoRun

\* Whether the call that left the locals m raised: at open(f, 'r'), at line
\* 35 of fix-remaining-xunit-issues.py, or at open(f, 'w').
Raised(m, f) == ~m.read \/ m.raised \/ (m.write /\ fault[f] = "write")

\* The loop without its try block: an exception ends it, at entry i of n.
Uncaught(i, n, raised) == IF raised THEN n ELSE i + 1

\* try: ... except Exception as e: print(...) inside the for loop: whether
\* or not the call raised, the loop goes on with the entry after entry i.
Caught(i, n, raised) == i + 1

\* One turn of the batch loop: the try block around the call for the next
\* file, with its except clause.
ProcessFile ==
    /\ pc = "loop"
    /\ idx < Len(files)
    /\ LET f == files[idx + 1] IN
         /\ mem' = Call(f)
         /\ attempts' = [attempts EXCEPT ![f] = @ + 1]
         /\ reads' = [reads EXCEPT ![f] = @ + 1]
         /\ writes' = IF mem'.write THEN [writes EXCEPT ![f] = @ + 1] ELSE writes
         /\ disk' = IF mem'.write /\ fault[f] # "write"
                    THEN [disk EXCEPT ![f] = mem'.content] ELSE disk
         /\ outcome' = [outcome EXCEPT ![f] =
                          IF Raised(mem', f) THEN "error"
                          ELSE Report(script, mem'.write)]
         /\ fixed_count' = IF script = "warnings" /\ mem'.write /\ fault[f] # "write"
                           THEN fixed_count + 1 ELSE fixed_count
         /\ idx' = Caught(idx, Len(files), Raised(mem', f))
    /\ UNCHANGED <<script, disk0, fault, files, pc, counted, fun_vars>>

\* The prints after the loop; only fix-xunit-warnings.py prints a count there.
Finish ==
    /\ pc = "loop"
    /\ idx = Len(files)
    /\ pc' = "done"
    /\ counted' = (counted \/ script = "warnings")
    /\ UNCHANGED <<script, disk, disk0, fault, files, idx, reads, writes, outcome,
                   attempts, fixed_count, mem, fun_vars>>

Next == Scan \/ ListFiles \/ ProcessFile \/ Finish

Init == InitBatch

Spec == Init /\ [][Next]_vars

(***************************************************************************)
(* The rewriting functions on their own: one file, run through a script    *)
(* once and then, as it then is, a second time.                            *)
(***************************************************************************)
MaxLines == 4

\* Lines a test file is made of.
TestLine == <<"[Test]">>

TaskLine == <<"public async Task ", "Foo", "(", ")">>

OpenLine == <<"{">>

CloseLine == <<"}">>

AwaitLine == <<"await ", "Bar", "(", ")", ";">>

\* await Assert.That(A).IsEqualTo(E);
IsEqualToLine(A, E) ==
    <<"await ", "Assert.That(">> \o A \o <<")", ".IsEqualTo(">> \o E \o <<")", ";">>

\* Assert.Equal(a, b);
EqualLine(a, b) == <<"Assert.Equal(">> \o a \o <<", ">> \o b \o <<")", ";">>

\* The actual values of the equality assertions: a name and a call.
Actuals == {<<"x">>, <<"x", ".Count(", ")">>}

Expecteds == {<<"3">>}

FunLines ==
    {TestLine, TaskLine, OpenLine, CloseLine, AwaitLine, EqualLine(<<"\"a\"">>, <<"\"b\"">>)}
    \cup {IsEqualToLine(A, E) : A \in Actuals, E \in Expecteds}

\* The texts of one to MaxLines of these lines.
FunTexts == {Join(q) : q \in UNION {[1..n -> FunLines] : n \in 1..MaxLines}}

InitFun ==
    /\ script \in Scripts
    /\ input \in FunTexts
    /\ pc = "start"
    /\ out1 = <<>> /\ out2 = <<>>
    /\ mem = NoRun
    /\ disk = <<>> /\ disk0 = <<>> /\ fault = <<>>
    /\ files = <<>>
    /\ idx = 0
    /\ reads = Zero /\ writes = Zero /\ attempts = Zero
    /\ outcome = [f \in Paths |-> "none"]
    /\ counted = FALSE
    /\ fixed_count = 0

batch_vars == <<disk, disk0, fault, files, idx, reads, writes, outcome, attempts,
                counted, fixed_count>>

\* What the file holds once the function is through: the text it wrote, or
\* the text it read when it wrote nothing.
Written(m, text) == IF m.write THEN m.content ELSE text

\* A first run of the script's function over a file that holds `input`.
Apply1 ==
    /\ pc = "start"
    /\ mem' = Run(script, input)
    /\ out1' = Written(mem', input)
    /\ pc' = "once"
    /\ UNCHANGED <<script, input, out2, batch_vars>>

\* A second run, over what the first has left.
Apply2 ==
    /\ pc = "once"
    /\ mem' = Run(script, out1)
    /\ out2' = Written(mem', out1)
    /\ pc' = "twice"
    /\ UNCHANGED <<script, input, out1, batch_vars>>

NextFun == Apply1 \/ Apply2

SpecFun == InitFun /\ [][NextFun]_vars

(***************************************************************************)
(* Properties of the batch runs (specification Spec).                      *)
(***************************************************************************)
\* The candidate files of the run, once the list is made.
Listed == {files[i] : i \in DOMAIN files}

\* The file the loop has just been through.
Last == files[idx]

\* C1: every file a script goes through is read exactly once and written at
\* most once, and it is opened for writing only if the text the function ends
\* with differs from the text it read.
C1_WriteOnlyIfChanged ==
    /\ \A f \in Paths : reads[f] = attempts[f] /\ reads[f] <= 1 /\ writes[f] <= 1
    /\ (pc \in {"loop", "done"} /\ idx > 0 /\ mem.read /\ mem.write)
          => mem.content # disk0[Last]

\* C2: an error at reading or writing one file is caught and reported for
\* that file, nothing is tried again, and the files after it are still gone
\* through: at the end of the batch every candidate was attempted exactly once.
C2_EveryCandidateOnce ==
    /\ \A f \in Paths : attempts[f] <= 1
    /\ \A f \in Paths : attempts[f] = 1 /\ (f \notin DOMAIN disk \/ fault[f] = "read")
          => outcome[f] = "error"
    /\ \A f \in DOMAIN disk :
          attempts[f] = 1 /\ writes[f] = 1 /\ fault[f] = "write" => outcome[f] = "error"
    /\ pc = "done" => \A f \in Paths : attempts[f] = (IF f \in Listed THEN 1 ELSE 0)

\* C2's case: the first of two candidates failed, the second was handled.
C2_Witness ==
    /\ pc = "done"
    /\ Len(files) = 2
    /\ files[1] \in DOMAIN disk /\ outcome[files[1]] = "error"
    /\ files[2] \in DOMAIN disk /\ attempts[files[2]] = 1
    /\ outcome[files[2]] \in {"converted", "fixed"}

\* C3: a file whose base name is in the exclusion set is never read and never
\* rewritten: it holds after the batch what it held before.
C3_ExcludedUntouched ==
    \A f \in DOMAIN disk \cap skip_files :
        disk[f] = disk0[f] /\ reads[f] = 0 /\ writes[f] = 0 /\ outcome[f] = "none"

\* C3's case: a batch that rewrote a file has left an excluded file alone
\* whose text the script would have rewritten too.
C3_Witness ==
    /\ pc = "done"
    /\ script = "convert"
    /\ "TestSetup.cs" \in DOMAIN disk
    /\ disk0["TestSetup.cs"] = OldText /\ fault["TestSetup.cs"] = "none"
    /\ \E f \in DOMAIN disk : disk0[f] = OldText /\ disk[f] # disk0[f]

\* C4: the candidate set of a directory-scanning script is exactly the set
\* of matched paths whose base name is not an excluded name; a path that only
\* holds an excluded name inside a longer file name is still a candidate.
C4_CandidatesByBaseName ==
    (script # "final" /\ pc # "scan") => Listed = {f \in DOMAIN disk : f \notin skip_files}

\* The trigger markers '[Test]', 'await Assert.That' and 'TUnit', as the
\* lexemes that hold them.
HasMarker(text) ==
    \/ \E i \in DOMAIN text :
          text[i] \in {"[Test]", "// TUnit", "using TUnit.Core", "using TUnit.Assertions",
                       "using TUnit.Assertions.Extensions"}
    \/ \E i \in 1..Len(text) - 1 : text[i] = "await " /\ text[i + 1] = "Assert.That("

\* C5: convert_file, given a file that holds none of the trigger markers,
\* applies no rule, does not write, leaves the file as it is and reports it
\* as skipped; and a file reported as converted held a marker.
C5_NoMarkerSkipped ==
    script = "convert" =>
        /\ \A f \in DOMAIN disk :
              (attempts[f] = 1 /\ fault[f] # "read" /\ ~HasMarker(disk0[f]))
                 => writes[f] = 0 /\ disk[f] = disk0[f] /\ outcome[f] = "skipped"
        /\ \A f \in DOMAIN disk : outcome[f] = "converted" => HasMarker(disk0[f])
        /\ (idx > 0 /\ mem.read /\ ~HasMarker(disk0[Last]))
              => mem.content = disk0[Last] /\ ~mem.write

\* C5's case: a file without a marker, which the rules would have changed,
\* was skipped, and a file with one was converted in the same batch.
C5_Witness ==
    /\ pc = "done"
    /\ script = "convert"
    /\ \E f \in DOMAIN disk : disk0[f] = MSTestText /\ outcome[f] = "skipped"
    /\ \E f \in DOMAIN disk : disk0[f] = OldText /\ outcome[f] = "converted"

\* C7: on termination the script has reported a count of the files it
\* handled.
C7_CountReported == pc = "done" => counted

\* What a file holds after the batch and what is reported for it, from the
\* file alone: its text and the error its I/O gives.
AloneText(f) ==
    IF fault[f] = "none" /\ Run(script, disk0[f]).write THEN Run(script, disk0[f]).content
    ELSE disk0[f]

AloneOutcome(f) ==
    IF fault[f] = "read" \/ Run(script, disk0[f]).raised
       \/ (fault[f] = "write" /\ Run(script, disk0[f]).write)
    THEN "error"
    ELSE Report(script, Run(script, disk0[f]).write)

\* C8: the text of every file after the batch and the outcome reported for
\* it are the same in whatever order the candidates are gone through: they
\* depend on the file alone.
C8_OrderIndependent ==
    /\ \A f \in DOMAIN disk :
          attempts[f] = 1 => disk[f] = AloneText(f) /\ outcome[f] = AloneOutcome(f)
    /\ \A f \in DOMAIN disk : attempts[f] = 0 => disk[f] = disk0[f] /\ outcome[f] = "none"

\* C8's case: two candidates, the first unreadable and the second rewritten.
C8_Witness ==
    /\ pc = "done"
    /\ Len(files) = 2
    /\ fault[files[1]] = "read" /\ outcome[files[1]] = "error"
    /\ disk0[files[1]] = OldText
    /\ disk[files[2]] # disk0[files[2]]

(***************************************************************************)
(* Properties of the rewriting functions (specification SpecFun).          *)
(***************************************************************************)
\* C6: a script run over what a run of the same script has left changes
\* nothing.
C6_Idempotent == pc = "twice" => out2 = out1

\* The last line of the method that starts at line i: the first line from i
\* on at which a '{' has been seen and as many '}' as '{', and the last line
\* of the text when there is no such line.
Braces(lines, i, j, ch) ==
    Cardinality({<<k, p>> \in (i..j) \X (1..20) :
                   p <= Len(lines[k]) /\ CountChar(<<lines[k][p]>>, ch) = 1})

BodyEnd(lines, i) ==
    LET closing == {j \in i..Len(lines) :
                      /\ Braces(lines, i, j, "{") > 0
                      /\ Braces(lines, i, j, "{") = Braces(lines, i, j, "}")}
    IN IF closing = {} THEN Len(lines) ELSE Min(closing)

\* C9: convert_file rewrites the signature line of a parameterless
\* 'public async Task' method to 'public void' if and only if the method,
\* from that line through the line that closes its body, holds no 'await ';
\* a method that still awaits keeps its signature, also when the braces
\* never balance.
C9_VoidIffNoAwait ==
    (script = "convert" /\ pc = "once" /\ mem.write) =>
        \A i \in DOMAIN mem.asyncIn :
            IsAsyncTaskLine(mem.asyncIn[i]) =>
                (HasLex(mem.asyncOut[i], "public void ")
                    <=> ~\E j \in i..BodyEnd(mem.asyncIn, i) : HasLex(mem.asyncIn[j], "await "))

\* C10: every 'await Assert.That(A).IsEqualTo(E);' that convert_file
\* rewrites becomes 'Assert.Equal(E, A);', the expected value first, by the
\* single-line rule and by the fallback for the remaining assertions alike.
C10_ExpectedFirst ==
    (script = "convert" /\ pc = "once") =>
        \A A \in Actuals, E \in Expecteds :
            (\E i \in DOMAIN Split(input) : Split(input)[i] = IsEqualToLine(A, E))
               => \E j \in DOMAIN Split(out1) : Split(out1)[j] = EqualLine(E, A)

====
